---- MODULE Spec2Model ----
\* A model of kiwi's yum package manager backend
\* (src/kiwi/package_manager/yum.py, class PackageManagerYum).
\*
\* One instance is modelled.  Every public method is one atomic action: the
\* class is used single-threaded and every method runs to completion (or to
\* the exception it raises) before the next one starts.  The external
\* commands run through Command.run / Command.call succeed or fail
\* nondeterministically; what the instance executed during its most recent
\* method call is recorded in cmds.
EXTENDS Integers, Sequences, FiniteSets, TLC

\* ---------------------------------------------------------------------
\* Bounds of the model
\* ---------------------------------------------------------------------
MaxPending == 2       \* most requests pending in the three lists together
MaxCustomArgs == 2    \* longest custom_args list the model lets grow
MaxExclusionCalls == 1  \* most request_package_exclusion calls of a run

PackageNames == {"a", "b"}
CollectionNames == {"base", "dev tools"}
ExcludeNames == {"pkgX"}
\* the custom_args lists handed to post_init
InitCustomArgs ==
    { <<>>,
      <<"--nogpgcheck">>,
      <<"--exclude=pkgY">>,
      <<"--setopt=requires_policy=strong",
        "--setopt=requires_policy=strong">> }

\* where an executable yum-deprecated may be found: on the ambient search
\* path ("") or below the root directory.  The two places are probed by
\* different methods; the instances modelled have it in one of them, so
\* that every probe has both outcomes and the two probes never agree.
YumDeprecatedPlaces == {{""}, {"/root_dir/usr/bin"}}

\* ---------------------------------------------------------------------
\* Attributes that stay fixed for the lifetime of the instance
\* ---------------------------------------------------------------------
root_dir == "/root_dir"
yum_args == <<"-c", "/root_dir/yum.conf", "-y">>
StrongRequires == "--setopt=requires_policy=strong"

VARIABLES
    package_requests,     \* self.package_requests
    collection_requests,  \* self.collection_requests
    exclude_requests,     \* self.exclude_requests
    custom_args,          \* self.custom_args
    yum_deprecated_in,    \* search paths holding an executable yum-deprecated
    last_call,            \* name of the most recent method call
    repeated,             \* the call before it was to the same method
    cmds,                 \* commands executed by the most recent call
    result,               \* how the most recent call ended
    call_args,            \* arguments of the most recent output matcher call
    exclusion_calls       \* number of request_package_exclusion calls so far

queue == <<package_requests, collection_requests, exclude_requests>>
vars == <<package_requests, collection_requests, exclude_requests,
          custom_args, yum_deprecated_in, last_call, repeated, cmds,
          result, call_args, exclusion_calls>>

\* ---------------------------------------------------------------------
\* Python list and string primitives
\* ---------------------------------------------------------------------
Range(s) == {s[i] : i \in 1..Len(s)}

RECURSIVE Count(_, _)
Count(x, s) ==
    IF s = <<>> THEN 0
    ELSE (IF Head(s) = x THEN 1 ELSE 0) + Count(x, Tail(s))

\* list.remove(x): drops the first element equal to x
RECURSIVE ListRemove(_, _)
ListRemove(s, x) ==
    IF s = <<>> THEN <<>>
    ELSE IF Head(s) = x THEN Tail(s)
    ELSE <<Head(s)>> \o ListRemove(Tail(s), x)

\* sep.join(s)
RECURSIVE Join(_, _)
Join(sep, s) ==
    IF s = <<>> THEN ""
    ELSE IF Len(s) = 1 THEN s[1]
    ELSE s[1] \o sep \o Join(sep, Tail(s))

\* ---------------------------------------------------------------------
\* Collaborators
\* ---------------------------------------------------------------------
\* One executed command: through Command.run (raises when the command
\* fails) or Command.call; ok is the outcome of the external command.
Cmd(via, argv, ok) == [via |-> via, argv |-> argv, ok |-> ok]

\* Path.which(filename='yum-deprecated', custom_env, access_mode=X_OK);
\* the PATH "" stands for custom_env=None, the ambient search path.
\* Which search paths hold the executable is chosen when the instance is
\* created and stays as it is while the instance lives.
PathWhich(path) == path \in yum_deprecated_in

\* root_bind.move_to_root: a reference to the root directory becomes a
\* reference valid from inside the chroot.
MoveToRoot(elements) ==
    [i \in 1..Len(elements) |->
        IF elements[i] = "/root_dir/yum.conf" THEN "/yum.conf"
        ELSE elements[i]]

\* PackageManagerBase.cleanup_requests: empties the three request lists.
CleanupRequests ==
    /\ package_requests' = <<>>
    /\ collection_requests' = <<>>
    /\ exclude_requests' = <<>>

\* ---------------------------------------------------------------------
\* Pure parts of the methods
\* ---------------------------------------------------------------------
\* post_init: custom_args or []
PostInit(args) == IF Len(args) = 0 THEN <<>> ELSE args

\* request_collection storing the bare name
QuoteCollectionBare(name) == name

\* request_collection: the name wrapped in double quotes
QuoteCollection(name) == "\"" \o name \o "\""

\* _get_yum_binary_name(root); root "" stands for root=None
\* _get_yum_binary_name probing the ambient search path whatever the root
GetYumBinaryNameAmbient(root) ==
    IF PathWhich("") THEN "yum-deprecated" ELSE "yum"

GetYumBinaryName(root) ==
    LET yum_search_env ==
            IF root # "" THEN Join("/", <<root, "usr", "bin">>) ELSE ""
    IN  IF PathWhich(yum_search_env) THEN "yum-deprecated" ELSE "yum"

\* bash_command with the groupinstall part appended unconditionally
BootstrapCommandAlwaysGroup(yum, pkgs, colls, cargs) ==
    <<yum>> \o yum_args \o <<"--installroot", root_dir>>
    \o cargs \o <<"install">> \o pkgs
    \o <<"&&", yum>> \o yum_args \o <<"--installroot", root_dir>>
    \o cargs \o <<"groupinstall">> \o colls

\* bash_command of process_install_requests_bootstrap
BootstrapCommand(yum, pkgs, colls, cargs) ==
    LET install == <<yum>> \o yum_args \o <<"--installroot", root_dir>>
                   \o cargs \o <<"install">> \o pkgs
    IN  IF colls # <<>>
        THEN install \o <<"&&", yum>> \o yum_args
             \o <<"--installroot", root_dir>> \o cargs
             \o <<"groupinstall">> \o colls
        ELSE install

\* process_install_requests_bootstrap going on after a failed refresh
BootstrapExecutedIgnoresRefresh(yum, command, makecache_ok, call_ok) ==
    <<Cmd("run", <<yum>> \o yum_args \o <<"makecache">>, makecache_ok),
      Cmd("call", <<"bash", "-c", Join(" ", command)>>, call_ok)>>

\* commands executed by process_install_requests_bootstrap
BootstrapExecuted(yum, command, makecache_ok, call_ok) ==
    LET makecache ==
            Cmd("run", <<yum>> \o yum_args \o <<"makecache">>, makecache_ok)
    IN  IF ~makecache_ok
        THEN <<makecache>>
        ELSE <<makecache,
               Cmd("call", <<"bash", "-c", Join(" ", command)>>, call_ok)>>

\* the exclusion requests replacing custom_args instead of extending it
ExcludeArgsAssigned(cargs, excludes) ==
    IF excludes # <<>>
    THEN [i \in 1..Len(excludes) |-> "--exclude=" \o excludes[i]]
    ELSE cargs

\* custom_args after the exclusion requests have been translated
ExcludeArgs(cargs, excludes) ==
    cargs \o [i \in 1..Len(excludes) |-> "--exclude=" \o excludes[i]]

\* bash_command of process_install_requests
ChrootCommand(yum, chroot_yum_args, pkgs, colls, cargs) ==
    LET install == <<"chroot", root_dir, yum>> \o chroot_yum_args
                   \o cargs \o <<"install">> \o pkgs
    IN  IF colls # <<>>
        THEN install \o <<"&&", "chroot", root_dir, yum>>
             \o chroot_yum_args \o cargs \o <<"groupinstall">> \o colls
        ELSE install

\* process_install_requests going on after a failed rebuild
InstallExecutedIgnoresRebuild(command, rebuilddb_ok, call_ok) ==
    <<Cmd("run", <<"chroot", root_dir, "rpm", "--rebuilddb">>,
          rebuilddb_ok),
      Cmd("call", <<"bash", "-c", Join(" ", command)>>, call_ok)>>

\* commands executed by process_install_requests
InstallExecuted(command, rebuilddb_ok, call_ok) ==
    LET rebuilddb ==
            Cmd("run", <<"chroot", root_dir, "rpm", "--rebuilddb">>,
                rebuilddb_ok)
    IN  IF ~rebuilddb_ok
        THEN <<rebuilddb>>
        ELSE <<rebuilddb,
               Cmd("call", <<"bash", "-c", Join(" ", command)>>, call_ok)>>

\* the rpm -q queries of process_delete_requests, one per request;
\* installed[i] is the outcome of the i-th query
DeleteQueries(pkgs, installed) ==
    [i \in 1..Len(pkgs) |->
        Cmd("run", <<"chroot", root_dir, "rpm", "-q", pkgs[i]>>,
            installed[i])]

\* delete_items taking every requested package, installed or not
DeleteItemsAll(pkgs, installed) == pkgs

\* delete_items collecting the packages whose query failed
RECURSIVE DeleteItemsOfFailedQueries(_, _)
DeleteItemsOfFailedQueries(pkgs, installed) ==
    IF pkgs = <<>> THEN <<>>
    ELSE (IF ~Head(installed) THEN <<Head(pkgs)>> ELSE <<>>)
         \o DeleteItemsOfFailedQueries(Tail(pkgs), Tail(installed))

\* delete_items of process_delete_requests
RECURSIVE DeleteItems(_, _)
DeleteItems(pkgs, installed) ==
    IF pkgs = <<>> THEN <<>>
    ELSE (IF Head(installed) THEN <<Head(pkgs)>> ELSE <<>>)
         \o DeleteItems(Tail(pkgs), Tail(installed))

\* argv of the removal command of process_delete_requests
DeleteCommand(delete_items) ==
    LET delete_options == <<"--nodeps", "--allmatches", "--noscripts">>
    IN  <<"chroot", root_dir, "rpm", "-e">> \o delete_options
        \o delete_items

\* commands executed by process_delete_requests
DeleteExecuted(pkgs, installed, call_ok) ==
    LET delete_items == DeleteItems(pkgs, installed)
    IN  IF delete_items = <<>>
        THEN DeleteQueries(pkgs, installed)
        ELSE DeleteQueries(pkgs, installed)
             \o <<Cmd("call", DeleteCommand(delete_items), call_ok)>>

\* the command of update built from the arguments as configured
UpdateCommandUnmoved(yum, chroot_yum_args, cargs) ==
    <<"chroot", root_dir, yum>> \o yum_args \o cargs \o <<"upgrade">>

\* argv of the command of update
UpdateCommand(yum, chroot_yum_args, cargs) ==
    <<"chroot", root_dir, yum>> \o chroot_yum_args \o cargs
    \o <<"upgrade">>

\* process_only_required without its membership test
OnlyRequiredAlwaysAppends(cargs) == Append(cargs, StrongRequires)

\* custom_args after process_only_required
OnlyRequired(cargs) ==
    IF StrongRequires \notin Range(cargs)
    THEN Append(cargs, StrongRequires)
    ELSE cargs

\* process_plus_recommended dropping the last argument (list.pop)
PlusRecommendedPops(cargs) ==
    IF StrongRequires \in Range(cargs)
    THEN SubSeq(cargs, 1, Len(cargs) - 1)
    ELSE cargs

\* custom_args after process_plus_recommended
PlusRecommended(cargs) ==
    IF StrongRequires \in Range(cargs)
    THEN ListRemove(cargs, StrongRequires)
    ELSE cargs

\* database_consistent letting the failure of the command through
DatabaseConsistentRaises(initdb_ok) ==
    IF initdb_ok THEN "True" ELSE "command_error"

\* what database_consistent returns
DatabaseConsistentResult(initdb_ok) ==
    IF initdb_ok THEN "True" ELSE "False"

\* ---------------------------------------------------------------------
\* Output matchers.  Text is a sequence of characters here, so that a
\* regular expression can be applied to it.
\* ---------------------------------------------------------------------
AlphaNumeric ==
    {"a", "b", "c", "d", "e", "f", "g", "h", "i", "j", "k", "l", "m",
     "n", "o", "p", "q", "r", "s", "t", "u", "v", "w", "x", "y", "z",
     "A", "B", "C", "D", "E", "F", "G", "H", "I", "J", "K", "L", "M",
     "N", "O", "P", "Q", "R", "S", "T", "U", "V", "W", "X", "Y", "Z",
     "0", "1", "2", "3", "4", "5", "6", "7", "8", "9"}

\* re.escape without any escaping
ReEscapeNothing(text) == text

\* re.escape: a backslash before every character that is not alphanumeric
RECURSIVE ReEscape(_)
ReEscape(text) ==
    IF text = <<>> THEN <<>>
    ELSE (IF Head(text) \in AlphaNumeric
          THEN <<Head(text)>>
          ELSE <<"\\", Head(text)>>) \o ReEscape(Tail(text))

\* re.compile for the expressions used here: \c is the character c, .* is
\* any run of characters of a line, . is any character of a line, every
\* other character is itself
RECURSIVE ReCompile(_)
ReCompile(pattern) ==
    IF pattern = <<>> THEN <<>>
    ELSE IF Head(pattern) = "\\" /\ Len(pattern) >= 2
    THEN <<[kind |-> "char", ch |-> pattern[2]]>>
         \o ReCompile(Tail(Tail(pattern)))
    ELSE IF Head(pattern) = "." /\ Len(pattern) >= 2 /\ pattern[2] = "*"
    THEN <<[kind |-> "any_run", ch |-> "."]>>
         \o ReCompile(Tail(Tail(pattern)))
    ELSE IF Head(pattern) = "."
    THEN <<[kind |-> "any", ch |-> "."]>> \o ReCompile(Tail(pattern))
    ELSE <<[kind |-> "char", ch |-> Head(pattern)]>>
         \o ReCompile(Tail(pattern))

\* the compiled expression matches at the start of text; the end of the
\* expression need not be the end of text, and . matches no newline
RECURSIVE MatchesAt(_, _)
MatchesAt(compiled, text) ==
    IF compiled = <<>> THEN TRUE
    ELSE LET item == Head(compiled)
         IN  IF item.kind = "any_run"
             THEN \E k \in 0..Len(text) :
                      /\ \A i \in 1..k : text[i] # "\n"
                      /\ MatchesAt(Tail(compiled),
                                   SubSeq(text, k + 1, Len(text)))
             ELSE /\ text # <<>>
                  /\ IF item.kind = "any"
                     THEN Head(text) # "\n"
                     ELSE Head(text) = item.ch
                  /\ MatchesAt(Tail(compiled), Tail(text))

\* re.match(pattern, text), as a truth value
ReMatch(pattern, text) == MatchesAt(ReCompile(pattern), text)

\* match_package_installed, as a truth value
MatchPackageInstalledResult(package_name, yum_output) ==
    ReMatch(<<".", "*", "I", "n", "s", "t", "a", "l", "l", "i", "n", "g",
              " ", ":", " ">> \o ReEscape(package_name) \o <<".", "*">>,
            yum_output)

\* match_package_deleted, as a truth value
MatchPackageDeletedResult(package_name, yum_output) ==
    ReMatch(<<".", "*", "R", "e", "m", "o", "v", "i", "n", "g", ":", " ">>
            \o ReEscape(package_name) \o <<".", "*">>,
            yum_output)

\* the package names and output lines handed to the matchers
MatchNames ==
    {<<"f", "o", "o">>, <<"a", ".", "b">>}
LineStarts ==
    {<<>>, <<" ", " ">>, <<"x", "\n">>}
LineMarks ==
    {<<"I", "n", "s", "t", "a", "l", "l", "i", "n", "g", " ", ":", " ">>,
     <<"I", "n", "s", "t", "a", "l", "l", "i", "n", "g", ":", " ">>,
     <<"R", "e", "m", "o", "v", "i", "n", "g", ":", " ">>}
LinePackages ==
    {<<"f", "o", "o">>, <<"f", "o", "o", "b", "a", "r">>, <<"f", "o">>,
     <<"a", ".", "b">>, <<"a", "x", "b">>}
LineEnds ==
    {<<>>, <<"-", "1", ".", "0">>}
MatchLines ==
    {s \o m \o p \o e :
        s \in LineStarts, m \in LineMarks, p \in LinePackages,
        e \in LineEnds}

\* ---------------------------------------------------------------------
\* The instance
\* ---------------------------------------------------------------------
\* bookkeeping of a finished call
Called(name, executed, outcome) ==
    /\ last_call' = name
    /\ repeated' = (last_call = name)
    /\ cmds' = executed
    /\ result' = outcome
    /\ call_args' = <<>>
    /\ exclusion_calls' =
           IF name = "request_package_exclusion"
           THEN exclusion_calls + 1
           ELSE exclusion_calls

\* number of requests waiting in the three lists
Pending ==
    Len(package_requests) + Len(collection_requests)
    + Len(exclude_requests)

Init ==
    /\ package_requests = <<>>
    /\ collection_requests = <<>>
    /\ exclude_requests = <<>>
    /\ \E args \in InitCustomArgs : custom_args = PostInit(args)
    /\ yum_deprecated_in \in YumDeprecatedPlaces
    /\ last_call = "post_init"
    /\ repeated = FALSE
    /\ cmds = <<>>
    /\ result = "none"
    /\ call_args = <<>>
    /\ exclusion_calls = 0

\* request_package dropping a name that is already requested
RequestPackageSkipsDuplicates ==
    \E name \in PackageNames :
        /\ Pending < MaxPending
        /\ package_requests' =
               IF name \in Range(package_requests)
               THEN package_requests
               ELSE Append(package_requests, name)
        /\ Called("request_package", <<>>, "none")
        /\ UNCHANGED <<collection_requests, exclude_requests, custom_args,
                       yum_deprecated_in>>

RequestPackage ==
    \E name \in PackageNames :
        /\ Pending < MaxPending
        /\ package_requests' = Append(package_requests, name)
        /\ Called("request_package", <<>>, "none")
        /\ UNCHANGED <<collection_requests, exclude_requests, custom_args,
                       yum_deprecated_in>>

RequestCollection ==
    \E name \in CollectionNames :
        /\ Pending < MaxPending
        /\ collection_requests' =
               Append(collection_requests, QuoteCollection(name))
        /\ Called("request_collection", <<>>, "none")
        /\ UNCHANGED <<package_requests, exclude_requests, custom_args,
                       yum_deprecated_in>>

RequestProduct ==
    /\ Called("request_product", <<>>, "none")
    /\ UNCHANGED <<package_requests, collection_requests, exclude_requests,
                   custom_args, yum_deprecated_in>>

RequestPackageExclusion ==
    \E name \in ExcludeNames :
        /\ Pending < MaxPending
        /\ exclusion_calls < MaxExclusionCalls
        /\ exclude_requests' = Append(exclude_requests, name)
        /\ Called("request_package_exclusion", <<>>, "none")
        /\ UNCHANGED <<package_requests, collection_requests, custom_args,
                       yum_deprecated_in>>

ProcessInstallRequestsBootstrap ==
    \E makecache_ok \in BOOLEAN, call_ok \in BOOLEAN :
        LET yum == GetYumBinaryName("")
            command ==
                BootstrapCommand(yum, package_requests,
                                 collection_requests, custom_args)
            executed ==
                BootstrapExecuted(yum, command, makecache_ok, call_ok)
        IN  /\ IF ~makecache_ok
               THEN /\ UNCHANGED queue
                    /\ Called("process_install_requests_bootstrap",
                              executed, "command_error")
               ELSE /\ CleanupRequests
                    /\ Called("process_install_requests_bootstrap",
                              executed, "returned")
            /\ UNCHANGED <<custom_args, yum_deprecated_in>>

\* process_install_requests clearing the queue before the database rebuild
ProcessInstallRequestsClearsFirst ==
    \E rebuilddb_ok \in BOOLEAN, call_ok \in BOOLEAN :
        LET yum == GetYumBinaryName(root_dir)
            cargs == ExcludeArgs(custom_args, exclude_requests)
            command ==
                ChrootCommand(yum, MoveToRoot(yum_args), package_requests,
                              collection_requests, cargs)
            executed == InstallExecuted(command, rebuilddb_ok, call_ok)
        IN  /\ Len(cargs) <= MaxCustomArgs
            /\ custom_args' = cargs
            /\ CleanupRequests
            /\ Called("process_install_requests", executed,
                      IF rebuilddb_ok THEN "returned" ELSE "command_error")
            /\ UNCHANGED yum_deprecated_in

ProcessInstallRequests ==
    \E rebuilddb_ok \in BOOLEAN, call_ok \in BOOLEAN :
        LET yum == GetYumBinaryName(root_dir)
            cargs == ExcludeArgs(custom_args, exclude_requests)
            command ==
                ChrootCommand(yum, MoveToRoot(yum_args), package_requests,
                              collection_requests, cargs)
            executed == InstallExecuted(command, rebuilddb_ok, call_ok)
        IN  /\ Len(cargs) <= MaxCustomArgs
            /\ custom_args' = cargs
            /\ IF ~rebuilddb_ok
               THEN /\ UNCHANGED queue
                    /\ Called("process_install_requests", executed,
                              "command_error")
               ELSE /\ CleanupRequests
                    /\ Called("process_install_requests", executed,
                              "returned")
            /\ UNCHANGED yum_deprecated_in

\* process_delete_requests without its cleanup_requests call
ProcessDeleteRequestsKeepsQueue ==
    \E installed \in [1..Len(package_requests) -> BOOLEAN],
       call_ok \in BOOLEAN :
        LET delete_items == DeleteItems(package_requests, installed)
            executed ==
                DeleteExecuted(package_requests, installed, call_ok)
        IN  /\ Called("process_delete_requests", executed,
                      IF delete_items = <<>> THEN "KiwiRequestError"
                      ELSE "returned")
            /\ UNCHANGED <<package_requests, collection_requests,
                           exclude_requests, custom_args,
                           yum_deprecated_in>>

\* the force parameter is not used by the method
ProcessDeleteRequests ==
    \E installed \in [1..Len(package_requests) -> BOOLEAN],
       call_ok \in BOOLEAN :
        LET delete_items == DeleteItems(package_requests, installed)
            executed ==
                DeleteExecuted(package_requests, installed, call_ok)
        IN  /\ IF delete_items = <<>>
               THEN /\ UNCHANGED queue
                    /\ Called("process_delete_requests", executed,
                              "KiwiRequestError")
               ELSE /\ CleanupRequests
                    /\ Called("process_delete_requests", executed,
                              "returned")
            /\ UNCHANGED <<custom_args, yum_deprecated_in>>

Update ==
    \E call_ok \in BOOLEAN :
        LET yum == GetYumBinaryName(root_dir)
            command ==
                UpdateCommand(yum, MoveToRoot(yum_args), custom_args)
        IN  /\ Called("update", <<Cmd("call", command, call_ok)>>,
                      "returned")
            /\ UNCHANGED <<package_requests, collection_requests,
                           exclude_requests, custom_args,
                           yum_deprecated_in>>

ProcessOnlyRequired ==
    /\ Len(OnlyRequired(custom_args)) <= MaxCustomArgs
    /\ custom_args' = OnlyRequired(custom_args)
    /\ Called("process_only_required", <<>>, "none")
    /\ UNCHANGED <<package_requests, collection_requests, exclude_requests,
                   yum_deprecated_in>>

ProcessPlusRecommended ==
    /\ custom_args' = PlusRecommended(custom_args)
    /\ Called("process_plus_recommended", <<>>, "none")
    /\ UNCHANGED <<package_requests, collection_requests, exclude_requests,
                   yum_deprecated_in>>

DatabaseConsistent ==
    \E initdb_ok \in BOOLEAN :
        /\ Called("database_consistent",
                  <<Cmd("run", <<"chroot", root_dir, "rpmdb", "--initdb">>,
                        initdb_ok)>>,
                  DatabaseConsistentResult(initdb_ok))
        /\ UNCHANGED <<package_requests, collection_requests,
                       exclude_requests, custom_args, yum_deprecated_in>>

Next ==
    \/ RequestPackage
    \/ RequestCollection
    \/ RequestProduct
    \/ RequestPackageExclusion
    \/ ProcessInstallRequestsBootstrap
    \/ ProcessInstallRequests
    \/ ProcessDeleteRequests
    \/ Update
    \/ ProcessOnlyRequired
    \/ ProcessPlusRecommended
    \/ DatabaseConsistent

Spec == Init /\ [][Next]_vars

\* bookkeeping of a finished output matcher call
CalledMatcher(name, package_name, yum_output, matched) ==
    /\ last_call' = name
    /\ repeated' = (last_call = name)
    /\ cmds' = <<>>
    /\ result' = IF matched THEN "match" ELSE "None"
    /\ call_args' = <<package_name, yum_output>>
    /\ UNCHANGED exclusion_calls

MatchPackageInstalled ==
    \E package_name \in MatchNames, yum_output \in MatchLines :
        /\ CalledMatcher("match_package_installed", package_name,
                         yum_output,
                         MatchPackageInstalledResult(package_name,
                                                     yum_output))
        /\ UNCHANGED <<package_requests, collection_requests,
                       exclude_requests, custom_args, yum_deprecated_in>>

MatchPackageDeleted ==
    \E package_name \in MatchNames, yum_output \in MatchLines :
        /\ CalledMatcher("match_package_deleted", package_name,
                         yum_output,
                         MatchPackageDeletedResult(package_name,
                                                   yum_output))
        /\ UNCHANGED <<package_requests, collection_requests,
                       exclude_requests, custom_args, yum_deprecated_in>>

\* the output matchers read no attribute of the instance: they are
\* exercised on one freshly created instance
InitMatch ==
    /\ Init
    /\ custom_args = <<>>
    /\ yum_deprecated_in = {""}

NextMatch ==
    \/ MatchPackageInstalled
    \/ MatchPackageDeleted

SpecMatch == InitMatch /\ [][NextMatch]_vars

\* ---------------------------------------------------------------------
\* Properties
\* ---------------------------------------------------------------------
ProcessingCalls ==
    {"process_install_requests_bootstrap", "process_install_requests",
     "process_delete_requests"}

QueueEmpty ==
    /\ package_requests = <<>>
    /\ collection_requests = <<>>
    /\ exclude_requests = <<>>

\* the tokens of s as one string, each token preceded by a blank
RECURSIVE Blanked(_)
Blanked(s) ==
    IF s = <<>> THEN "" ELSE " " \o Head(s) \o Blanked(Tail(s))

\* the binary name the instance must use when probing the given PATH
BinaryFor(path) ==
    IF path \in yum_deprecated_in THEN "yum-deprecated" ELSE "yum"

\* C1 as claimed: after any processing call the three request lists are
\* empty, whatever the outcome of the external commands it ran.
C1_EmptyAfterAnyProcessing ==
    last_call \in ProcessingCalls => QueueEmpty

\* C1 as amended: after a processing call that got as far as its final
\* command (the cache refresh or database rebuild succeeded, at least one
\* package was reported installed) the three request lists are empty,
\* whatever the outcome of that final command.
C1_EmptyAfterFinalCommand ==
    (/\ last_call \in ProcessingCalls
     /\ cmds # <<>>
     /\ cmds[Len(cmds)].via = "call") => QueueEmpty

\* a delete of two requested packages whose removal command failed
C1_Witness ==
    /\ last_call = "process_delete_requests"
    /\ Len(cmds) = 3
    /\ cmds[3].via = "call"
    /\ ~cmds[3].ok
    /\ QueueEmpty

\* C2 as claimed: in every reachable state, whatever custom_args was
\* handed to post_init, the flag --setopt=requires_policy=strong occurs at
\* most once in custom_args.
C2_StrongAtMostOnce ==
    Count(StrongRequires, custom_args) <= 1

\* C2 as amended: no method call raises the number of strong-requires
\* flags above one, so the flag occurs at most once in every reachable
\* state of an instance whose initial custom_args held it at most once.
C2_StrongStaysAtMostOnce ==
    [][Count(StrongRequires, custom_args) <= 1
          => Count(StrongRequires, custom_args') <= 1]_vars

\* process_only_required added the flag behind an exclusion
C2_Witness ==
    /\ last_call = "process_only_required"
    /\ custom_args = <<"--exclude=pkgX", StrongRequires>>

\* C3 as claimed: from any custom_args state, process_only_required
\* twice equals once, process_plus_recommended twice equals once, and
\* process_plus_recommended then process_only_required leaves the flag
\* exactly once.
C3_TogglesIdempotent ==
    /\ OnlyRequired(OnlyRequired(custom_args)) = OnlyRequired(custom_args)
    /\ PlusRecommended(PlusRecommended(custom_args))
           = PlusRecommended(custom_args)
    /\ Count(StrongRequires,
             OnlyRequired(PlusRecommended(custom_args))) = 1

\* C3 as amended: the same three equations, from any custom_args state
\* that holds the flag at most once.
C3_TogglesIdempotentFromAtMostOnce ==
    Count(StrongRequires, custom_args) <= 1 => C3_TogglesIdempotent

\* process_plus_recommended removed the only flag from between others
C3_Witness ==
    /\ last_call = "process_plus_recommended"
    /\ Count(StrongRequires, custom_args) = 0
    /\ custom_args = <<"--nogpgcheck", "--exclude=pkgX">>

\* the i-th smallest element of the set of positions idx
NthOf(idx, i) ==
    CHOOSE k \in idx : Cardinality({m \in idx : m <= k}) = i

\* C4: process_delete_requests queries each requested package once, in
\* request order, with "chroot <root> rpm -q <name>" before any removal;
\* when at least one query succeeded it then executes exactly one removal
\* command "chroot <root> rpm -e --nodeps --allmatches --noscripts"
\* followed by exactly the names whose query succeeded, in request order.
C4_DeleteQueriesThenRemovesInstalled ==
    [][last_call' = "process_delete_requests" =>
        LET n == Len(package_requests)
            found == {i \in 1..n : cmds'[i].ok}
        IN  /\ Len(cmds') >= n
            /\ \A i \in 1..n :
                   /\ cmds'[i].via = "run"
                   /\ cmds'[i].argv = <<"chroot", "/root_dir", "rpm", "-q",
                                        package_requests[i]>>
            /\ IF found # {}
               THEN /\ Len(cmds') = n + 1
                    /\ cmds'[n + 1].via = "call"
                    /\ cmds'[n + 1].argv =
                           <<"chroot", "/root_dir", "rpm", "-e", "--nodeps",
                             "--allmatches", "--noscripts">>
                           \o [j \in 1..Cardinality(found) |->
                                   package_requests[NthOf(found, j)]]
               ELSE Len(cmds') = n
    ]_vars

\* "a" and "b" were requested, only "a" is installed: "a" alone is removed
C4_Witness ==
    /\ last_call = "process_delete_requests"
    /\ Len(cmds) = 3
    /\ cmds[1].argv[5] = "a" /\ cmds[1].ok
    /\ cmds[2].argv[5] = "b" /\ ~cmds[2].ok
    /\ cmds[3].argv = <<"chroot", "/root_dir", "rpm", "-e", "--nodeps",
                        "--allmatches", "--noscripts", "a">>

\* C5: when no requested package is reported installed (every query
\* failed, or nothing was requested) process_delete_requests fails with
\* KiwiRequestError and executes no removal command; a failing query is
\* never surfaced: the call ends with KiwiRequestError or by returning
\* the removal command's result, and returns whenever a query succeeded.
C5_NoneInstalledIsRequestError ==
    last_call = "process_delete_requests" =>
        LET queries == {i \in 1..Len(cmds) : cmds[i].via = "run"}
        IN  /\ (\A i \in queries : ~cmds[i].ok) =>
                   /\ result = "KiwiRequestError"
                   /\ \A i \in 1..Len(cmds) :
                          /\ cmds[i].via # "call"
                          /\ cmds[i].argv[4] # "-e"
            /\ (\E i \in queries : cmds[i].ok) => result = "returned"
            /\ result \in {"KiwiRequestError", "returned"}

\* two packages were requested and neither is installed
C5_Witness ==
    /\ last_call = "process_delete_requests"
    /\ result = "KiwiRequestError"
    /\ Len(package_requests) = 2
    /\ Len(cmds) = 2
    /\ ~cmds[1].ok /\ ~cmds[2].ok

\* "<binary> <yum_args> --installroot <root_dir> <custom_args>" of the
\* bootstrap phase
BootstrapPrefix(cargs) ==
    BinaryFor("") \o " -c /root_dir/yum.conf -y --installroot /root_dir"
    \o Blanked(cargs)

\* C6: process_install_requests_bootstrap executes the cache refresh
\* "<binary> <yum_args> makecache" first and then one shell command
\* "<binary> <yum_args> --installroot <root_dir> <custom_args> install
\* <packages>", which carries the suffix " && <binary> <yum_args>
\* --installroot <root_dir> <custom_args> groupinstall <collections>" if
\* and only if a collection is pending.
C6_BootstrapCommandSequence ==
    [][last_call' = "process_install_requests_bootstrap" =>
        LET install == BootstrapPrefix(custom_args) \o " install"
                       \o Blanked(package_requests)
            suffix == " && " \o BootstrapPrefix(custom_args)
                      \o " groupinstall" \o Blanked(collection_requests)
        IN  /\ Len(cmds') >= 1
            /\ cmds'[1].via = "run"
            /\ cmds'[1].argv = <<BinaryFor(""), "-c", "/root_dir/yum.conf",
                                 "-y", "makecache">>
            /\ cmds'[1].ok =>
                   /\ Len(cmds') = 2
                   /\ cmds'[2].via = "call"
                   /\ cmds'[2].argv =
                          <<"bash", "-c",
                            IF collection_requests # <<>>
                            THEN install \o suffix
                            ELSE install>>
    ]_vars

\* one package and one collection were pending at a bootstrap install
C6_Witness ==
    /\ last_call = "process_install_requests_bootstrap"
    /\ Len(cmds) = 2
    /\ cmds[2].argv[3] =
           "yum -c /root_dir/yum.conf -y --installroot /root_dir install a"
           \o " && yum -c /root_dir/yum.conf -y --installroot /root_dir"
           \o " groupinstall \"base\""

\* the --exclude= tokens of a list of arguments: those of the requested
\* exclusions and the one the caller may hand to post_init
ExcludeTokens(cargs) ==
    {"--exclude=pkgX", "--exclude=pkgY"} \cap Range(cargs)

\* C7: exclusions are cumulative.  A process_install_requests call turns
\* every pending exclusion of p into a token --exclude=p of custom_args;
\* no later call of any method takes such a token out of custom_args
\* again, and the install command of every process_install_requests call
\* carries all of custom_args, queue reset or not.
C7_ExclusionsAreCumulative ==
    [][/\ ExcludeTokens(custom_args) \subseteq ExcludeTokens(custom_args')
       /\ last_call' = "process_install_requests" =>
              /\ \A p \in Range(exclude_requests) :
                     ("--exclude=" \o p) \in ExcludeTokens(custom_args')
              /\ Len(cmds') = 2 =>
                     cmds'[2].argv =
                         <<"bash", "-c",
                           "chroot /root_dir " \o BinaryFor("/root_dir/usr/bin")
                           \o " -c /yum.conf -y" \o Blanked(custom_args')
                           \o " install" \o Blanked(package_requests)
                           \o (IF collection_requests = <<>> THEN ""
                               ELSE " && chroot /root_dir "
                                    \o BinaryFor("/root_dir/usr/bin")
                                    \o " -c /yum.conf -y"
                                    \o Blanked(custom_args')
                                    \o " groupinstall"
                                    \o Blanked(collection_requests))>>
    ]_vars

\* an install that requested no exclusion still excludes pkgX: the token
\* precedes the strong-requires flag, so an earlier install put it there
C7_Witness ==
    /\ last_call = "process_install_requests"
    /\ custom_args = <<"--exclude=pkgX", StrongRequires>>
    /\ Len(cmds) = 2
    /\ cmds[2].argv[3] =
           "chroot /root_dir yum -c /yum.conf -y --exclude=pkgX"
           \o " --setopt=requires_policy=strong install a"

\* C8: process_install_requests executes "chroot <root_dir> rpm
\* --rebuilddb" on every call and before the install command; when the
\* rebuild fails the failure reaches the caller and neither install nor
\* groupinstall is executed.
C8_RebuildBeforeInstall ==
    last_call = "process_install_requests" =>
        /\ Len(cmds) >= 1
        /\ cmds[1].via = "run"
        /\ cmds[1].argv = <<"chroot", "/root_dir", "rpm", "--rebuilddb">>
        /\ \A i \in 2..Len(cmds) : cmds[i].argv[1] = "bash"
        /\ cmds[1].ok => Len(cmds) = 2 /\ result = "returned"
        /\ ~cmds[1].ok => Len(cmds) = 1 /\ result = "command_error"

\* the rebuild failed with a package and a collection pending
C8_Witness ==
    /\ last_call = "process_install_requests"
    /\ ~cmds[1].ok
    /\ Len(cmds) = 1
    /\ package_requests # <<>>
    /\ collection_requests # <<>>

\* C9: every element of collection_requests is a requested name wrapped
\* in double quotes, and an install (bootstrap or chroot) processed with
\* request_collection(n) as the only pending collection executes a shell
\* command whose groupinstall part ends with exactly the token "n",
\* quotes included.
C9_CollectionsAreQuoted ==
    [][/\ \A i \in 1..Len(collection_requests') :
              \E n \in CollectionNames :
                  collection_requests'[i] = "\"" \o n \o "\""
       /\ \A n \in CollectionNames :
              (/\ collection_requests = <<"\"" \o n \o "\"">>
               /\ last_call' \in {"process_install_requests_bootstrap",
                                  "process_install_requests"}
               /\ Len(cmds') = 2) =>
                  LET prefix == IF last_call' = "process_install_requests"
                                THEN "chroot /root_dir "
                                     \o BinaryFor("/root_dir/usr/bin")
                                     \o " -c /yum.conf -y"
                                     \o Blanked(custom_args')
                                ELSE BootstrapPrefix(custom_args')
                  IN  cmds'[2].argv[3] =
                          prefix \o " install" \o Blanked(package_requests)
                          \o " && " \o prefix
                          \o " groupinstall \"" \o n \o "\""
    ]_vars

\* a chroot install with the collection "dev tools" alone
C9_Witness ==
    /\ last_call = "process_install_requests"
    /\ Len(cmds) = 2
    /\ cmds[2].argv[3] =
           "chroot /root_dir yum -c /yum.conf -y install"
           \o " && chroot /root_dir yum -c /yum.conf -y"
           \o " groupinstall \"dev tools\""

\* C10: update leaves package_requests, collection_requests,
\* exclude_requests and custom_args unchanged and executes the one
\* command "chroot <root_dir> <binary> <rewritten yum_args> <custom_args>
\* upgrade"; an update that directly follows an update executes the
\* identical command.
C10_UpdateKeepsStateAndCommand ==
    [][last_call' = "update" =>
        /\ package_requests' = package_requests
        /\ collection_requests' = collection_requests
        /\ exclude_requests' = exclude_requests
        /\ custom_args' = custom_args
        /\ Len(cmds') = 1
        /\ cmds'[1].via = "call"
        /\ cmds'[1].argv =
               <<"chroot", "/root_dir", BinaryFor("/root_dir/usr/bin"),
                 "-c", "/yum.conf", "-y">> \o custom_args \o <<"upgrade">>
        /\ last_call = "update" => cmds'[1].argv = cmds[1].argv
    ]_vars

\* an update that directly follows an update and fails, with a package
\* and an exclusion pending
C10_Witness ==
    /\ last_call = "update"
    /\ repeated
    /\ package_requests # <<>>
    /\ exclude_requests # <<>>
    /\ custom_args = <<"--nogpgcheck", StrongRequires>>
    /\ cmds[1].argv = <<"chroot", "/root_dir", "yum-deprecated", "-c",
                        "/yum.conf", "-y", "--nogpgcheck", StrongRequires,
                        "upgrade">>
    /\ ~cmds[1].ok

\* text begins with the characters of prefix
StartsWith(text, prefix) ==
    /\ Len(text) >= Len(prefix)
    /\ SubSeq(text, 1, Len(prefix)) = prefix

InstallingOf(package_name) ==
    <<"I", "n", "s", "t", "a", "l", "l", "i", "n", "g", " ", ":", " ">>
    \o package_name

\* C11 as claimed: match_package_installed(name, line) is true if and
\* only if the line begins with "Installing : <name>", the name taken
\* literally.
C11_MatchesInstallingAtLineStart ==
    last_call = "match_package_installed" =>
        (result = "match"
            <=> StartsWith(call_args[2], InstallingOf(call_args[1])))

\* C11 as amended: match_package_installed(name, line) is true if and
\* only if "Installing : <name>", the name taken literally, occurs in the
\* first line of the text after any number of other characters; so it is
\* true for a line that reports a package whose name starts with <name>.
C11_MatchesInstallingInFirstLine ==
    last_call = "match_package_installed" =>
        (result = "match"
            <=> \E k \in 0..Len(call_args[2]) :
                    /\ \A i \in 1..k : call_args[2][i] # "\n"
                    /\ StartsWith(SubSeq(call_args[2], k + 1,
                                         Len(call_args[2])),
                                  InstallingOf(call_args[1])))

\* "foo" is reported installed by the line "Installing : foobar-1.0"
C11_Witness ==
    /\ last_call = "match_package_installed"
    /\ call_args = <<<<"f", "o", "o">>,
                     <<"I", "n", "s", "t", "a", "l", "l", "i", "n", "g",
                       " ", ":", " ", "f", "o", "o", "b", "a", "r",
                       "-", "1", ".", "0">>>>
    /\ result = "match"

\* C12: database_consistent never raises: it runs "chroot <root_dir> rpmdb
\* --initdb" and returns true when that command succeeds and false when
\* it fails, and it changes neither the request lists nor custom_args.
C12_DatabaseConsistentIsBoolean ==
    [][last_call' = "database_consistent" =>
        /\ Len(cmds') = 1
        /\ cmds'[1].via = "run"
        /\ cmds'[1].argv = <<"chroot", "/root_dir", "rpmdb", "--initdb">>
        /\ result' = IF cmds'[1].ok THEN "True" ELSE "False"
        /\ package_requests' = package_requests
        /\ collection_requests' = collection_requests
        /\ exclude_requests' = exclude_requests
        /\ custom_args' = custom_args
    ]_vars

\* the command failed while a package and an exclusion were pending
C12_Witness ==
    /\ last_call = "database_consistent"
    /\ ~cmds[1].ok
    /\ result = "False"
    /\ package_requests # <<>>
    /\ exclude_requests # <<>>
    /\ custom_args # <<>>

\* "chroot <root_dir> <binary> <rewritten yum_args> <custom_args>" of the
\* image phase
ChrootPrefix(cargs) ==
    "chroot /root_dir " \o BinaryFor("/root_dir/usr/bin")
    \o " -c /yum.conf -y" \o Blanked(cargs)

\* C13: the package tokens after "install" in the command of an install
\* (bootstrap or chroot) are exactly the names passed to request_package
\* since the last queue reset, in call order and with duplicates kept:
\* every request_package call appends one name behind the pending ones,
\* no call other than a processing call changes the pending names, and
\* the command lists them as they are pending.  The same holds for the
\* quoted collection names after "groupinstall".
C13_RequestsReachCommandInOrder ==
    [][/\ last_call' = "request_package" =>
              \E n \in PackageNames :
                  package_requests' = package_requests \o <<n>>
       /\ last_call' = "request_collection" =>
              \E n \in CollectionNames :
                  collection_requests' =
                      collection_requests \o <<"\"" \o n \o "\"">>
       /\ last_call' \notin ProcessingCalls \cup {"request_package"} =>
              package_requests' = package_requests
       /\ last_call' \notin ProcessingCalls \cup {"request_collection"} =>
              collection_requests' = collection_requests
       /\ (/\ last_call' \in {"process_install_requests_bootstrap",
                              "process_install_requests"}
           /\ Len(cmds') = 2) =>
              LET prefix == IF last_call' = "process_install_requests"
                            THEN ChrootPrefix(custom_args')
                            ELSE BootstrapPrefix(custom_args')
              IN  cmds'[2].argv[3] =
                      prefix \o " install" \o Blanked(package_requests)
                      \o (IF collection_requests = <<>> THEN ""
                          ELSE " && " \o prefix \o " groupinstall"
                               \o Blanked(collection_requests))
    ]_vars

\* "a" was requested twice and is installed twice
C13_Witness ==
    /\ last_call = "process_install_requests"
    /\ Len(cmds) = 2
    /\ cmds[2].argv[3] = "chroot /root_dir yum -c /yum.conf -y install a a"

\* C14: when the cache refresh of process_install_requests_bootstrap
\* fails, the failure reaches the caller, the refresh is not run a second
\* time and the call executes no install or groupinstall command.
C14_FailedRefreshIsFatal ==
    last_call = "process_install_requests_bootstrap" =>
        /\ Len(cmds) >= 1
        /\ cmds[1].argv[Len(cmds[1].argv)] = "makecache"
        /\ ~cmds[1].ok =>
               /\ Len(cmds) = 1
               /\ result = "command_error"
        /\ \A i \in 2..Len(cmds) :
               /\ cmds[i].argv[Len(cmds[i].argv)] # "makecache"
               /\ cmds[1].ok

\* the refresh failed with a package and a collection pending
C14_Witness ==
    /\ last_call = "process_install_requests_bootstrap"
    /\ Len(cmds) = 1
    /\ ~cmds[1].ok
    /\ result = "command_error"
    /\ package_requests # <<>>
    /\ collection_requests # <<>>

\* C15: each exclusion request is translated exactly once: for every
\* name p, custom_args (which held no --exclude=p at first) never holds
\* more --exclude=p tokens than request_package_exclusion(p) was called,
\* also when a process_install_requests call is aborted by a failing
\* database rebuild and then repeated.
C15_EachExclusionTranslatedOnce ==
    \A p \in ExcludeNames :
        Count("--exclude=" \o p, custom_args) <= exclusion_calls

\* C16: the queue is cleared before the final command is executed and
\* only then: a processing call that fails before its command is built (a
\* failing makecache, a failing rebuilddb, a KiwiRequestError) leaves
\* package_requests, collection_requests and exclude_requests exactly as
\* they were, and a processing call that gets as far as its final command
\* has emptied the three lists, whether that command succeeds or fails.
C16_QueueClearedOnlyAtFinalCommand ==
    [][last_call' \in ProcessingCalls =>
          IF result' \in {"command_error", "KiwiRequestError"}
          THEN /\ queue' = queue
               /\ \A i \in 1..Len(cmds') : cmds'[i].via = "run"
          ELSE /\ QueueEmpty'
               /\ cmds' # <<>>
               /\ cmds'[Len(cmds')].via = "call"]_vars

C16_Witness ==
    /\ last_call = "process_install_requests"
    /\ Len(cmds) = 2
    /\ cmds[2].via = "call"
    /\ ~cmds[2].ok
    /\ QueueEmpty
    /\ exclusion_calls = 1
    /\ custom_args = <<"--exclude=pkgX">>

\* the methods that assign or mutate custom_args
CustomArgsWriters ==
    {"process_only_required", "process_plus_recommended",
     "process_install_requests"}

\* a list of arguments without the --exclude= tokens of the given names
WithoutExclusions(cargs, names) ==
    SelectSeq(cargs, LAMBDA t : \A p \in names : t # "--exclude=" \o p)

\* C17: custom_args is modified only by process_only_required,
\* process_plus_recommended and process_install_requests; so the exclusion
\* requests that are pending at a bootstrap install or at a successful
\* delete are dropped by the queue reset without a token --exclude=p of
\* theirs in any command: where every request_package_exclusion call made
\* so far is still pending at such a call, custom_args holds no token of
\* the pending names when the queue is reset, and the commands of the
\* call carry none.
C17_OnlyThreeMethodsWriteCustomArgs ==
    [][/\ custom_args' # custom_args => last_call' \in CustomArgsWriters
       /\ (/\ last_call' \in {"process_install_requests_bootstrap",
                               "process_delete_requests"}
           /\ exclude_requests # <<>>
           /\ Len(exclude_requests) = exclusion_calls
           /\ QueueEmpty') =>
              LET clean ==
                      WithoutExclusions(custom_args, Range(exclude_requests))
              IN  /\ custom_args' = clean
                  /\ \A i \in 1..Len(cmds') :
                         \A p \in Range(exclude_requests) :
                             ("--exclude=" \o p) \notin Range(cmds'[i].argv)
                  /\ last_call' = "process_install_requests_bootstrap" =>
                         cmds'[2].argv[3] =
                             BootstrapPrefix(clean) \o " install"
                             \o Blanked(package_requests)
                             \o (IF collection_requests = <<>> THEN ""
                                 ELSE " && " \o BootstrapPrefix(clean)
                                      \o " groupinstall"
                                      \o Blanked(collection_requests))
    ]_vars

\* C18: every synthesized command names the binary yum-deprecated if the
\* probe for an executable yum-deprecated succeeds and yum otherwise, and
\* a probe that finds nothing is no error.  The bootstrap install probes
\* the ambient search path, in its cache refresh and in its install
\* command; process_install_requests and update probe /root_dir/usr/bin
\* only; the install and the groupinstall segment of one command name the
\* same binary.
C18_BinaryNameFollowsProbe ==
    [][LET ambient == IF "" \in yum_deprecated_in
                      THEN "yum-deprecated" ELSE "yum"
           below_root == IF "/root_dir/usr/bin" \in yum_deprecated_in
                         THEN "yum-deprecated" ELSE "yum"
           pending == " install" \o Blanked(package_requests)
           group == " groupinstall" \o Blanked(collection_requests)
       IN  /\ last_call' = "process_install_requests_bootstrap" =>
                  LET prefix == ambient \o " -c /root_dir/yum.conf -y"
                                \o " --installroot /root_dir"
                                \o Blanked(custom_args')
                  IN  /\ cmds'[1].argv[1] = ambient
                      /\ cmds'[1].ok =>
                             /\ result' = "returned"
                             /\ cmds'[2].argv[3] =
                                    prefix \o pending
                                    \o (IF collection_requests = <<>>
                                        THEN ""
                                        ELSE " && " \o prefix \o group)
           /\ last_call' = "process_install_requests" =>
                  LET prefix == "chroot /root_dir " \o below_root
                                \o " -c /yum.conf -y"
                                \o Blanked(custom_args')
                  IN  cmds'[1].ok =>
                          /\ result' = "returned"
                          /\ cmds'[2].argv[3] =
                                 prefix \o pending
                                 \o (IF collection_requests = <<>>
                                     THEN ""
                                     ELSE " && " \o prefix \o group)
           /\ last_call' = "update" =>
                  /\ result' = "returned"
                  /\ cmds'[1].argv[3] = below_root
    ]_vars

\* yum-deprecated is found below the root directory only: the bootstrap
\* would call yum, the install calls yum-deprecated in both segments
C18_Witness ==
    /\ last_call = "process_install_requests"
    /\ yum_deprecated_in = {"/root_dir/usr/bin"}
    /\ Len(cmds) = 2
    /\ cmds[2].argv[3] =
           "chroot /root_dir yum-deprecated -c /yum.conf -y install a"
           \o " && chroot /root_dir yum-deprecated -c /yum.conf -y"
           \o " groupinstall \"base\""

====
